---------------------------- MODULE Spec2Model ----------------------------
(***************************************************************************)
(* Model of the CSV cleanup tool in src/script.js.                         *)
(*                                                                         *)
(* A JavaScript string is modelled as a sequence of one-character strings. *)
(* Loops of the source are modelled by a step operator (one iteration) and *)
(* a recursive operator that iterates it; the step operators are also the  *)
(* actions of the line-level specification SpecLine.                       *)
(***************************************************************************)
EXTENDS Integers, Sequences, FiniteSets, TLC

VARIABLES
    pc,                  \* stage of the run: which function is executing
    line,                \* argument of parseCSVLine / normalizeLineDelimiters
    ps,                  \* locals of parseCSVLine: i, current, inQuotes, wasQuoted, result
    fields,              \* value returned by parseCSVLine (Null until it returns)
    value,               \* argument of escapeCSVValue
    forceQuote,          \* argument of escapeCSVValue
    text,                \* argument of validateAndFixCSV
    lines,               \* validateAndFixCSV: const lines = text.split(/\r?\n/)
    vs,                  \* locals of validateAndFixCSV: i, fixedLines, errors,
                         \* expectedColumnCount, headerLine
    ret,                 \* object returned by validateAndFixCSV (Null until it returns)
    transform,           \* the cleanup transform being applied
    once,                \* its result on text (Null until it returns)
    twice,               \* its result on that result (Null until it returns)
    inputValue,          \* inputEl.value, the text of the textarea
    selectionStart,      \* inputEl.selectionStart, the cursor offset
    lastCursorPosition,
    currentValidationResult,
    immediateValidationTimeout,   \* TRUE while the line-level timer is pending
    validationTimeout,            \* TRUE while the full-validation timer is pending
    pasteTimeouts,       \* number of pending timers set by the paste handler
    downloadDisabled,    \* downloadBtn.disabled
    effect               \* what the handler that ran last showed or produced

lineVars == <<line, ps, fields, value, forceQuote>>
docVars == <<text, lines, vs, ret>>
cleanVars == <<transform, once, twice>>

uiVars == <<inputValue, selectionStart, lastCursorPosition, currentValidationResult,
            immediateValidationTimeout, validationTimeout, pasteTimeouts,
            downloadDisabled, effect>>

vars == <<pc, lineVars, docVars, cleanVars, uiVars>>

----------------------------------------------------------------------------
(* Characters and optional values *)

QUOTE == "\""
COMMA == ","
TAB   == "\t"
SEMI  == ";"
SPACE == " "
LF    == "\n"
CR    == "\r"

\* null / a present value (JavaScript null against a number, object or string)
Null == <<>>
Some(x) == <<x>>

\* the characters String.prototype.trim strips, among those of the model
IsSpace(c) == c \in {SPACE, TAB, LF, CR}

\* all sequences over S of length at most n
SeqsUpTo(S, n) == UNION {[1..k -> S] : k \in 0..n}

Max(a, b) == IF a >= b THEN a ELSE b
Min(a, b) == IF a <= b THEN a ELSE b

\* s.includes(c)
Includes(s, c) == \E k \in 1..Len(s) : s[k] = c

\* (s.match(/c/g) || []).length
CountChar(s, c) == Cardinality({k \in 1..Len(s) : s[k] = c})

\* s.trim()
RECURSIVE TrimStart(_)
TrimStart(s) == IF s # <<>> /\ IsSpace(Head(s)) THEN TrimStart(Tail(s)) ELSE s

RECURSIVE TrimEnd(_)
TrimEnd(s) ==
    IF s # <<>> /\ IsSpace(s[Len(s)]) THEN TrimEnd(SubSeq(s, 1, Len(s) - 1)) ELSE s

trim(s) == TrimEnd(TrimStart(s))

\* text.split(/\r?\n/): k is the next position, cur the line read so far; a CR
\* right before the LF belongs to the separator
RECURSIVE SplitFrom(_, _, _)
SplitFrom(t, k, cur) ==
    IF k > Len(t) THEN <<cur>>
    ELSE IF t[k] = LF
    THEN <<IF cur # <<>> /\ cur[Len(cur)] = CR THEN SubSeq(cur, 1, Len(cur) - 1) ELSE cur>>
         \o SplitFrom(t, k + 1, <<>>)
    ELSE SplitFrom(t, k + 1, Append(cur, t[k]))

Split(t) == SplitFrom(t, 1, <<>>)

\* array.join(sep)
RECURSIVE Join(_, _)
Join(ls, sep) ==
    IF ls = <<>> THEN <<>>
    ELSE IF Len(ls) = 1 THEN ls[1]
    ELSE ls[1] \o sep \o Join(Tail(ls), sep)

CRLF == <<CR, LF>>

\* array.filter(line => line.trim())
RECURSIVE NonBlank(_)
NonBlank(ls) ==
    IF ls = <<>> THEN <<>>
    ELSE (IF trim(Head(ls)) # <<>> THEN <<Head(ls)>> ELSE <<>>) \o NonBlank(Tail(ls))

----------------------------------------------------------------------------
(* parseCSVLine *)

\* the locals before the while loop
ParseInit ==
    [i |-> 0, current |-> <<>>, inQuotes |-> FALSE, wasQuoted |-> FALSE, result |-> <<>>]

\* one iteration of the while loop, without the inQuotes test of the escaped-quote rule
ParseStep_NoInQuotesTest(l, s) ==
    LET char == l[s.i + 1] IN
    IF char = QUOTE
    THEN IF s.i + 1 < Len(l) /\ l[s.i + 2] = QUOTE
         THEN [s EXCEPT !.current = Append(@, QUOTE), !.i = @ + 2]
         ELSE [s EXCEPT !.inQuotes = ~@, !.wasQuoted = TRUE, !.i = @ + 1]
    ELSE IF char = COMMA /\ ~s.inQuotes
    THEN [s EXCEPT !.result = Append(@, [value |-> s.current, wasQuoted |-> s.wasQuoted]),
                   !.current = <<>>, !.inQuotes = FALSE, !.wasQuoted = FALSE,
                   !.i = @ + 1]
    ELSE [s EXCEPT !.current = Append(@, char), !.i = @ + 1]

\* one iteration of the while loop whose separator branch lacks the inQuotes
\* test, so that a comma inside quotes ends the field and resets the flag
ParseStep_SeparatorInQuotes(l, s) ==
    LET char == l[s.i + 1] IN
    IF char = QUOTE
    THEN IF s.inQuotes /\ s.i + 1 < Len(l) /\ l[s.i + 2] = QUOTE
         THEN [s EXCEPT !.current = Append(@, QUOTE), !.i = @ + 2]
         ELSE [s EXCEPT !.inQuotes = ~@, !.wasQuoted = TRUE, !.i = @ + 1]
    ELSE IF char = COMMA
    THEN [s EXCEPT !.result = Append(@, [value |-> s.current, wasQuoted |-> s.wasQuoted]),
                   !.current = <<>>, !.inQuotes = FALSE, !.wasQuoted = FALSE,
                   !.i = @ + 1]
    ELSE [s EXCEPT !.current = Append(@, char), !.i = @ + 1]

\* one iteration of the while loop (i is the 0-based index of the source)
ParseStep(l, s) ==
    LET char == l[s.i + 1] IN
    IF char = QUOTE
    THEN IF s.inQuotes /\ s.i + 1 < Len(l) /\ l[s.i + 2] = QUOTE
         THEN [s EXCEPT !.current = Append(@, QUOTE), !.i = @ + 2]
         ELSE [s EXCEPT !.inQuotes = ~@, !.wasQuoted = TRUE, !.i = @ + 1]
    ELSE IF char = COMMA /\ ~s.inQuotes
    THEN [s EXCEPT !.result = Append(@, [value |-> s.current, wasQuoted |-> s.wasQuoted]),
                   !.current = <<>>, !.inQuotes = FALSE, !.wasQuoted = FALSE,
                   !.i = @ + 1]
    ELSE [s EXCEPT !.current = Append(@, char), !.i = @ + 1]

\* "Add the last field" and return
ParseFinish(s) == Append(s.result, [value |-> s.current, wasQuoted |-> s.wasQuoted])

RECURSIVE ParseLoop(_, _)
ParseLoop(l, s) == IF s.i < Len(l) THEN ParseLoop(l, ParseStep(l, s)) ELSE s

parseCSVLine(l) == ParseFinish(ParseLoop(l, ParseInit))

\* values.map(v => v.value)
Values(fs) == [k \in 1..Len(fs) |-> fs[k].value]

----------------------------------------------------------------------------
(* escapeCSVValue *)

\* value.replace(/"/g, '""')
RECURSIVE DoubleQuotes(_)
DoubleQuotes(v) ==
    IF v = <<>> THEN <<>>
    ELSE (IF Head(v) = QUOTE THEN <<QUOTE, QUOTE>> ELSE <<Head(v)>>) \o DoubleQuotes(Tail(v))

NeedsQuoting(v) ==
    Includes(v, COMMA) \/ Includes(v, QUOTE) \/ Includes(v, LF) \/ Includes(v, CR)

\* escapeCSVValue wrapping without doubling the internal quotes
escapeCSVValue_NoDoubling(v, force) ==
    IF force \/ NeedsQuoting(v) THEN <<QUOTE>> \o v \o <<QUOTE>> ELSE v

escapeCSVValue(v, force) ==
    IF force \/ NeedsQuoting(v) THEN <<QUOTE>> \o DoubleQuotes(v) \o <<QUOTE>> ELSE v

\* array.map(escapeCSVValue): map calls its callback with (element, index, array),
\* so the 0-based index arrives as forceQuote, and a number is truthy iff non-zero
MapEscape(arr) == [k \in 1..Len(arr) |-> escapeCSVValue(arr[k], (k - 1) # 0)]

----------------------------------------------------------------------------
(* normalizeLineDelimiters *)

NormInit == [i |-> 0, out |-> <<>>, inQuotes |-> FALSE]

\* one iteration of the for loop that toggles on every quote and never skips a pair
NormStep_ToggleEveryPair(l, s) ==
    LET ch == l[s.i + 1] IN
    IF ch = QUOTE
    THEN IF s.i + 1 < Len(l) /\ l[s.i + 2] = QUOTE
         THEN [s EXCEPT !.out = @ \o <<QUOTE, QUOTE>>, !.inQuotes = ~@, !.i = @ + 2]
         ELSE [s EXCEPT !.out = Append(@, ch), !.inQuotes = ~@, !.i = @ + 1]
    ELSE IF ~s.inQuotes /\ (ch = TAB \/ ch = SEMI)
    THEN [s EXCEPT !.out = Append(@, COMMA), !.i = @ + 1]
    ELSE [s EXCEPT !.out = Append(@, ch), !.i = @ + 1]

\* one iteration of the for loop, the i++ of the loop header included
NormStep(l, s) ==
    LET ch == l[s.i + 1] IN
    IF ch = QUOTE
    THEN IF s.i + 1 < Len(l) /\ l[s.i + 2] = QUOTE
         THEN [s EXCEPT !.out = @ \o <<QUOTE, QUOTE>>, !.i = @ + 2]
         ELSE [s EXCEPT !.out = Append(@, ch), !.inQuotes = ~@, !.i = @ + 1]
    ELSE IF ~s.inQuotes /\ (ch = TAB \/ ch = SEMI)
    THEN [s EXCEPT !.out = Append(@, COMMA), !.i = @ + 1]
    ELSE [s EXCEPT !.out = Append(@, ch), !.i = @ + 1]

RECURSIVE NormLoop(_, _)
NormLoop(l, s) == IF s.i < Len(l) THEN NormLoop(l, NormStep(l, s)) ELSE s

normalizeLineDelimiters(l) == NormLoop(l, NormInit).out

----------------------------------------------------------------------------
(* Line-level specification: escapeCSVValue produces a line, or a line is   *)
(* given directly, and parseCSVLine scans it one loop iteration at a time.  *)

MaxLineLen == 5
MaxValueLen == 3

LineChars == {"a", COMMA, QUOTE, SPACE}
ValueChars == {"a", COMMA, QUOTE, LF, CR}

\* the lines of the worked examples of the documentation
EscapedQuoteExample == <<"a", COMMA, QUOTE, "b", QUOTE, QUOTE, "c", QUOTE, COMMA, "d">>
UnmatchedQuoteExample == <<"a", COMMA, QUOTE, "b", COMMA, "c">>
ExampleLines == {EscapedQuoteExample, UnmatchedQuoteExample}

\* the variables of validateAndFixCSV while no document is validated
DocIdle ==
    /\ text = <<>>
    /\ lines = <<>>
    /\ vs = Null
    /\ ret = Null

\* the variables of the cleanup transforms while none is applied
CleanIdle ==
    /\ transform = "none"
    /\ once = Null
    /\ twice = Null

\* a handler that shows no alert and produces no file
NoEffect == [kind |-> "none", alert |-> FALSE, applied |-> <<>>, file |-> Null]

\* the page before any event: empty textarea, no timer, no held result
UIIdle ==
    /\ inputValue = <<>>
    /\ selectionStart = 0
    /\ lastCursorPosition = 0
    /\ currentValidationResult = Null
    /\ immediateValidationTimeout = FALSE
    /\ validationTimeout = FALSE
    /\ pasteTimeouts = 0
    /\ downloadDisabled = FALSE
    /\ effect = NoEffect

InitLine ==
    /\ DocIdle
    /\ CleanIdle
    /\ UIIdle
    /\ fields = Null
    /\ ps = ParseInit
    /\ \/ /\ pc = "scan"
          /\ line \in SeqsUpTo(LineChars, MaxLineLen) \cup ExampleLines
          /\ value = <<>>
          /\ forceQuote = FALSE
       \/ /\ pc = "escape"
          /\ line = <<>>
          /\ value \in SeqsUpTo(ValueChars, MaxValueLen)
          /\ forceQuote \in BOOLEAN

\* escapeCSVValue(value, forceQuote) returns the line that is scanned next
Escape ==
    /\ pc = "escape"
    /\ line' = escapeCSVValue(value, forceQuote)
    /\ pc' = "escaped"
    /\ UNCHANGED <<ps, fields, value, forceQuote, docVars, cleanVars, uiVars>>

TokStep ==
    /\ pc \in {"scan", "escaped"}
    /\ fields = Null
    /\ ps.i < Len(line)
    /\ ps' = ParseStep(line, ps)
    /\ UNCHANGED <<pc, line, fields, value, forceQuote, docVars, cleanVars, uiVars>>

TokReturn ==
    /\ pc \in {"scan", "escaped"}
    /\ fields = Null
    /\ ~(ps.i < Len(line))
    /\ fields' = Some(ParseFinish(ps))
    /\ UNCHANGED <<pc, line, ps, value, forceQuote, docVars, cleanVars, uiVars>>

NextLine == Escape \/ TokStep \/ TokReturn

SpecLine == InitLine /\ [][NextLine]_vars

\* the same with the call running on: straight-line code keeps executing, so a
\* step that is possible is eventually taken
SpecLineFair == SpecLine /\ WF_vars(NextLine)

----------------------------------------------------------------------------
(* Properties of parseCSVLine and escapeCSVValue *)

\* number of quote characters before position p (1-based) of l
QuotesBefore(l, p) == Cardinality({q \in 1..(p - 1) : l[q] = QUOTE})

\* a comma that lies outside quotes: an even number of quotes precedes it
IsSeparator(l, p) == l[p] = COMMA /\ QuotesBefore(l, p) % 2 = 0

\* the k-th smallest element of a set of numbers
Nth(S, k) == CHOOSE p \in S : Cardinality({q \in S : q < p}) = k - 1

\* a character that reaches the field value: any non-quote character, and the
\* first quote of a doubled quote inside quotes
IsContent(l, p) ==
    \/ l[p] # QUOTE
    \/ /\ QuotesBefore(l, p) % 2 = 1
       /\ p < Len(l)
       /\ l[p + 1] = QUOTE

\* the fields of l described without a scan: the raw text between separators,
\* with the quoting removed and doubled quotes collapsed
FieldsOf(l) ==
    LET seps == {p \in 1..Len(l) : IsSeparator(l, p)}
        n == Cardinality(seps) + 1
        first(k) == IF k = 1 THEN 1 ELSE Nth(seps, k - 1) + 1
        last(k) == IF k = n THEN Len(l) ELSE Nth(seps, k) - 1
        content(k) == {p \in first(k)..last(k) : IsContent(l, p)}
    IN  [k \in 1..n |->
            [value |-> [j \in 1..Cardinality(content(k)) |-> l[Nth(content(k), j)]],
             wasQuoted |-> \E p \in first(k)..last(k) : l[p] = QUOTE]]

\* C5: when parseCSVLine returns, its result is the fields of the line: one more
\* than the commas outside quotes, each value the raw field text with quoting
\* removed and doubled quotes collapsed, wasQuoted exactly for the fields whose
\* raw text holds a quote; a,"b""c",d gives a, b"c, d with only the middle quoted
C5_TokenizerFields ==
    fields # Null =>
        /\ fields[1] = FieldsOf(line)
        /\ Len(fields[1]) = 1 + Cardinality({p \in 1..Len(line) : IsSeparator(line, p)})
        /\ line = EscapedQuoteExample =>
               fields[1] = << [value |-> <<"a">>, wasQuoted |-> FALSE],
                              [value |-> <<"b", QUOTE, "c">>, wasQuoted |-> TRUE],
                              [value |-> <<"d">>, wasQuoted |-> FALSE] >>

\* parseCSVLine has returned for a line holding a doubled quote inside quotes
C5_Witness ==
    /\ fields # Null
    /\ line = EscapedQuoteExample

\* the escaped text is wrapped in quotes
IsWrapped(l) == Len(l) >= 2 /\ l[1] = QUOTE /\ l[Len(l)] = QUOTE

\* C6: escapeCSVValue returns a value without comma, quote, LF, CR unchanged when
\* forceQuote is false; parseCSVLine of the escaped text of any value, under either
\* forceQuote, is one field holding the value, wasQuoted iff the text was wrapped
C6_EscapeRoundTrip ==
    pc = "escaped" =>
        /\ (~NeedsQuoting(value) /\ ~forceQuote) => line = value
        /\ fields # Null =>
               /\ Len(fields[1]) = 1
               /\ fields[1][1].value = value
               /\ fields[1][1].wasQuoted = IsWrapped(line)

\* the escaped text of a value holding a quote and a comma has been tokenized
C6_Witness ==
    /\ pc = "escaped"
    /\ fields # Null
    /\ Includes(value, QUOTE)
    /\ Includes(value, COMMA)

----------------------------------------------------------------------------
(* detectCSVFormat *)

\* for (let i = 0; i < Math.min(lines.length, 10); i++)
SampleLimit == 10

DetectInit ==
    [hasCommas |-> FALSE, hasConsistentStructure |-> TRUE,
     expectedCommaCount |-> Null, validCSVLines |-> 0]

\* one iteration of the loop that tolerates a difference of 1 only
DetectStep_Tolerance1(l, d) ==
    LET commaCount == CountChar(l, COMMA) IN
    IF commaCount > 0
    THEN IF Len(parseCSVLine(l)) > 0
         THEN [d EXCEPT !.hasCommas = TRUE,
                        !.validCSVLines = @ + 1,
                        !.expectedCommaCount =
                            IF @ = Null THEN Some(commaCount) ELSE @,
                        !.hasConsistentStructure =
                            IF d.expectedCommaCount # Null
                               /\ Max(commaCount - d.expectedCommaCount[1],
                                      d.expectedCommaCount[1] - commaCount) > 1
                            THEN FALSE ELSE @]
         ELSE [d EXCEPT !.hasCommas = TRUE]
    ELSE IF d.expectedCommaCount # Null /\ d.expectedCommaCount[1] > 0
    THEN [d EXCEPT !.hasConsistentStructure = FALSE]
    ELSE d

\* one iteration of the loop over the sampled lines; parseCSVLine has no throw
\* statement and no operation that raises, so the catch block is never entered
DetectStep(l, d) ==
    LET commaCount == CountChar(l, COMMA) IN
    IF commaCount > 0
    THEN IF Len(parseCSVLine(l)) > 0
         THEN [d EXCEPT !.hasCommas = TRUE,
                        !.validCSVLines = @ + 1,
                        !.expectedCommaCount =
                            IF @ = Null THEN Some(commaCount) ELSE @,
                        !.hasConsistentStructure =
                            IF d.expectedCommaCount # Null
                               /\ Max(commaCount - d.expectedCommaCount[1],
                                      d.expectedCommaCount[1] - commaCount) > 2
                            THEN FALSE ELSE @]
         ELSE [d EXCEPT !.hasCommas = TRUE]
    ELSE IF d.expectedCommaCount # Null /\ d.expectedCommaCount[1] > 0
    THEN [d EXCEPT !.hasConsistentStructure = FALSE]
    ELSE d

RECURSIVE DetectLoop(_, _, _)
DetectLoop(ls, i, d) ==
    IF i < Min(Len(ls), SampleLimit)
    THEN DetectLoop(ls, i + 1, DetectStep(ls[i + 1], d))
    ELSE d

\* (validCSVLines / Math.min(lines.length, 10)) > 0.5 is 2 * validCSVLines > min
detectCSVFormat(t) ==
    IF t = <<>> \/ trim(t) = <<>> THEN TRUE
    ELSE LET ls == NonBlank(Split(t)) IN
         IF Len(ls) = 0 THEN TRUE
         ELSE LET d == DetectLoop(ls, 0, DetectInit) IN
              /\ d.hasCommas
              /\ 2 * d.validCSVLines > Min(Len(ls), SampleLimit)
              /\ d.hasConsistentStructure

----------------------------------------------------------------------------
(* validateAndFixCSV *)

\* the locals before the format check
ValidateInit ==
    [i |-> 0, fixedLines |-> <<>>, errors |-> <<>>,
     expectedColumnCount |-> Null, headerLine |-> Null]

\* one iteration of the loop of the not-CSV branch that flags blank lines too
NotCsvStep_FlagsBlank(ls, s) ==
    LET l == ls[s.i + 1] IN
    [s EXCEPT !.errors = Append(@, [line |-> s.i + 1, content |-> l,
                                    type |-> "not_csv_format"]),
              !.fixedLines = Append(@, l),
              !.i = @ + 1]

\* one iteration of the loop of the not-CSV branch
NotCsvStep(ls, s) ==
    LET l == ls[s.i + 1] IN
    [s EXCEPT !.errors = IF trim(l) # <<>>
                         THEN Append(@, [line |-> s.i + 1, content |-> l,
                                         type |-> "not_csv_format"])
                         ELSE @,
              !.fixedLines = Append(@, l),
              !.i = @ + 1]

\* the object returned by the not-CSV branch
NotCsvResult(s) ==
    [fixedText |-> Join(s.fixedLines, CRLF), errors |-> s.errors,
     expectedColumnCount |-> Null, headerLine |-> Null, isNotCSV |-> TRUE]

\* the too-many repair that joins the values without escaping them
TooManyFix_Unescaped(values, expected) ==
    LET fixedValues == Values(SubSeq(values, 1, expected - 1))
        lastValue == Join(Values(SubSeq(values, expected, Len(values))), <<COMMA, SPACE>>)
    IN  Join(Append(fixedValues, lastValue), <<COMMA>>)

\* "combine excess columns into the last expected column"
TooManyFix(values, expected) ==
    LET fixedValues == Values(SubSeq(values, 1, expected - 1))
        lastValue == Join(Values(SubSeq(values, expected, Len(values))), <<COMMA, SPACE>>)
    IN  Join(MapEscape(Append(fixedValues, lastValue)), <<COMMA>>)

\* "Too few columns - add empty columns"
TooFewFix(values, expected) ==
    LET paddedValues ==
            [k \in 1..expected |-> IF k <= Len(values) THEN values[k].value ELSE <<>>]
    IN  Join(MapEscape(paddedValues), <<COMMA>>)

\* one iteration of the main loop that takes the expected column count from
\* every non-blank line instead of the first one only
ValidateStep_Reassigns(ls, s) ==
    LET l == ls[s.i + 1] IN
    IF trim(l) = <<>>
    THEN [s EXCEPT !.fixedLines = Append(@, l), !.i = @ + 1]
    ELSE [s EXCEPT !.expectedColumnCount = Some(Len(parseCSVLine(l))),
                   !.headerLine = Some(s.i + 1),
                   !.fixedLines = Append(@, l),
                   !.i = @ + 1]

\* one iteration of the main loop that re-escapes a line with the expected
\* field count instead of keeping its text
ValidateStep_Reescapes(ls, s) ==
    LET l == ls[s.i + 1] IN
    IF trim(l) = <<>>
    THEN [s EXCEPT !.fixedLines = Append(@, l), !.i = @ + 1]
    ELSE LET values == parseCSVLine(l)
             first == s.expectedColumnCount = Null
             expected == IF first THEN Len(values) ELSE s.expectedColumnCount[1]
             header == IF first THEN Some(s.i + 1) ELSE s.headerLine
         IN  IF Len(values) # expected
             THEN [s EXCEPT !.errors = Append(@, [line |-> s.i + 1, content |-> l,
                                                  type |-> "column_mismatch",
                                                  expectedCount |-> expected,
                                                  actualCount |-> Len(values)]),
                            !.fixedLines =
                                Append(@, IF Len(values) > expected
                                          THEN TooManyFix(values, expected)
                                          ELSE TooFewFix(values, expected)),
                            !.i = @ + 1]
             ELSE [s EXCEPT !.expectedColumnCount = Some(expected),
                            !.headerLine = header,
                            !.fixedLines =
                                Append(@, Join(MapEscape(Values(values)), <<COMMA>>)),
                            !.i = @ + 1]

\* one iteration of the main loop. parseCSVLine never raises, so the catch block
\* (unmatched_quotes / invalid_format) is never entered
ValidateStep(ls, s) ==
    LET l == ls[s.i + 1] IN
    IF trim(l) = <<>>
    THEN [s EXCEPT !.fixedLines = Append(@, l), !.i = @ + 1]
    ELSE LET values == parseCSVLine(l)
             first == s.expectedColumnCount = Null
             expected == IF first THEN Len(values) ELSE s.expectedColumnCount[1]
             header == IF first THEN Some(s.i + 1) ELSE s.headerLine
         IN  IF Len(values) # expected
             THEN [s EXCEPT !.expectedColumnCount = Some(expected),
                            !.headerLine = header,
                            !.errors = Append(@, [line |-> s.i + 1, content |-> l,
                                                  type |-> "column_mismatch",
                                                  expectedCount |-> expected,
                                                  actualCount |-> Len(values)]),
                            !.fixedLines =
                                Append(@, IF Len(values) > expected
                                          THEN TooManyFix(values, expected)
                                          ELSE TooFewFix(values, expected)),
                            !.i = @ + 1]
             ELSE [s EXCEPT !.expectedColumnCount = Some(expected),
                            !.headerLine = header,
                            !.fixedLines = Append(@, l),
                            !.i = @ + 1]

\* the object returned after the main loop; isNotCSV is absent there and reads
\* as false
ValidateResult(s) ==
    [fixedText |-> Join(s.fixedLines, CRLF), errors |-> s.errors,
     expectedColumnCount |-> s.expectedColumnCount, headerLine |-> s.headerLine,
     isNotCSV |-> FALSE]

RECURSIVE NotCsvLoop(_, _)
NotCsvLoop(ls, s) == IF s.i < Len(ls) THEN NotCsvLoop(ls, NotCsvStep(ls, s)) ELSE s

RECURSIVE ValidateLoop(_, _)
ValidateLoop(ls, s) == IF s.i < Len(ls) THEN ValidateLoop(ls, ValidateStep(ls, s)) ELSE s

validateAndFixCSV(t) ==
    IF ~detectCSVFormat(t)
    THEN NotCsvResult(NotCsvLoop(Split(t), ValidateInit))
    ELSE ValidateResult(ValidateLoop(Split(t), ValidateInit))

----------------------------------------------------------------------------
(* Document-level specification: validateAndFixCSV runs on one text, one    *)
(* loop iteration at a time.                                                *)

MaxDocLines == 3
TailLines == 2

Str1(a) == <<a>>
Csv2(a, b) == <<a, COMMA, b>>
Csv3(a, b, c) == <<a, COMMA, b, COMMA, c>>

\* the lines documents are made of
LinePool ==
    { <<>>,
      <<SPACE>>,
      Str1("a"),
      Csv2("a", "b"),
      Csv2("1", "2"),
      Csv3("a", "b", "c"),
      <<"1", COMMA, "2", COMMA, "3", COMMA, "4">>,
      <<COMMA, COMMA, COMMA, COMMA>>,
      <<"a", COMMA, "b", CR>>,
      EscapedQuoteExample,
      UnmatchedQuoteExample }

Repeat(l, n) == [k \in 1..n |-> l]

\* line sequences that fill the sample of detectCSVFormat up to its last line
Paddings ==
    { Repeat(Csv2("a", "b"), SampleLimit - 1),
      Repeat(Str1("a"), 4) \o Repeat(Csv2("a", "b"), SampleLimit - 5),
      Repeat(Str1("a"), 5) \o Repeat(Csv2("a", "b"), SampleLimit - 6) }

Docs ==
    (SeqsUpTo(LinePool, MaxDocLines) \ {<<>>})
    \cup { p \o t : p \in Paddings, t \in [1..TailLines -> LinePool] }

DocTexts == { Join(d, sep) : d \in Docs, sep \in {<<LF>>, CRLF} }

LineIdle ==
    /\ line = <<>>
    /\ ps = ParseInit
    /\ fields = Null
    /\ value = <<>>
    /\ forceQuote = FALSE

InitDoc ==
    /\ LineIdle
    /\ CleanIdle
    /\ UIIdle
    /\ pc = "validate"
    /\ text \in DocTexts
    /\ lines = <<>>
    /\ vs = Null
    /\ ret = Null

\* lines 148-155: split the text, initialise the locals, run the format check
ValidateEnter ==
    /\ pc = "validate"
    /\ lines' = Split(text)
    /\ vs' = Some(ValidateInit)
    /\ pc' = IF ~detectCSVFormat(text) THEN "notcsv" ELSE "loop"
    /\ UNCHANGED <<text, ret, lineVars, cleanVars, uiVars>>

NotCsvLine ==
    /\ pc = "notcsv"
    /\ vs[1].i < Len(lines)
    /\ vs' = Some(NotCsvStep(lines, vs[1]))
    /\ UNCHANGED <<pc, text, lines, ret, lineVars, cleanVars, uiVars>>

NotCsvReturn ==
    /\ pc = "notcsv"
    /\ ~(vs[1].i < Len(lines))
    /\ ret' = Some(NotCsvResult(vs[1]))
    /\ pc' = "returned"
    /\ UNCHANGED <<text, lines, vs, lineVars, cleanVars, uiVars>>

ValidateLine ==
    /\ pc = "loop"
    /\ vs[1].i < Len(lines)
    /\ vs' = Some(ValidateStep(lines, vs[1]))
    /\ UNCHANGED <<pc, text, lines, ret, lineVars, cleanVars, uiVars>>

ValidateReturn ==
    /\ pc = "loop"
    /\ ~(vs[1].i < Len(lines))
    /\ ret' = Some(ValidateResult(vs[1]))
    /\ pc' = "returned"
    /\ UNCHANGED <<text, lines, vs, lineVars, cleanVars, uiVars>>

NextDoc == ValidateEnter \/ NotCsvLine \/ NotCsvReturn \/ ValidateLine \/ ValidateReturn

SpecDoc == InitDoc /\ [][NextDoc]_vars

----------------------------------------------------------------------------
(* Properties of detectCSVFormat and validateAndFixCSV *)

IsBlank(l) == \A k \in 1..Len(l) : IsSpace(l[k])

\* the field count of the first non-blank line of ls (the expected column count)
HeaderIndex(ls) == Nth({k \in 1..Len(ls) : ~IsBlank(ls[k])}, 1)
HeaderCount(ls) == Len(parseCSVLine(ls[HeaderIndex(ls)]))

\* the repair the documentation describes: every field escaped without force-quote
DocumentedRepair(values, e) ==
    LET n == Len(values)
        kept == IF n > e
                THEN [k \in 1..e |->
                        IF k < e THEN values[k].value
                        ELSE Join(Values(SubSeq(values, e, n)), <<COMMA, SPACE>>)]
                ELSE [k \in 1..e |-> IF k <= n THEN values[k].value ELSE <<>>]
    IN  Join([k \in 1..e |-> escapeCSVValue(kept[k], FALSE)], <<COMMA>>)

\* C1: in a document that passes the format check, every non-blank line whose
\* field count n differs from the expected count e gets exactly one
\* column_mismatch error carrying e and n, and is replaced in the repaired text by
\* the documented repair (fields escaped without force-quote, joined with commas)
C1_ColumnMismatchRepair ==
    (pc = "returned" /\ ~ret[1].isNotCSV) =>
        LET ls == Split(text)
            e == HeaderCount(ls)
            errs == ret[1].errors
            fixed == Split(ret[1].fixedText)
        IN  \A k \in 1..Len(ls) :
                LET values == parseCSVLine(ls[k]) IN
                (~IsBlank(ls[k]) /\ Len(values) # e) =>
                    /\ Cardinality({j \in 1..Len(errs) : errs[j].line = k}) = 1
                    /\ \A j \in 1..Len(errs) :
                           errs[j].line = k =>
                               /\ errs[j].type = "column_mismatch"
                               /\ errs[j].expectedCount = e
                               /\ errs[j].actualCount = Len(values)
                    /\ fixed[k] = DocumentedRepair(values, e)

\* C2: in a document that passes the format check, every non-blank line with an
\* odd number of quote characters gets an unmatched_quotes error and is kept
\* unchanged in the repaired text
C2_UnmatchedQuotesReported ==
    (pc = "returned" /\ ~ret[1].isNotCSV) =>
        LET ls == Split(text)
            errs == ret[1].errors
            fixed == Split(ret[1].fixedText)
        IN  \A k \in 1..Len(ls) :
                (~IsBlank(ls[k]) /\ CountChar(ls[k], QUOTE) % 2 = 1) =>
                    /\ \E j \in 1..Len(errs) :
                           errs[j].line = k /\ errs[j].type = "unmatched_quotes"
                    /\ fixed[k] = ls[k]

\* one not_csv_format error per non-blank line of ls, in line order
NotCsvErrors(ls) ==
    LET idx == {k \in 1..Len(ls) : ~IsBlank(ls[k])} IN
    [j \in 1..Cardinality(idx) |->
        [line |-> Nth(idx, j), content |-> ls[Nth(idx, j)], type |-> "not_csv_format"]]

\* every line break of t is CR LF
OnlyCRLF(t) == \A k \in 1..Len(t) : t[k] = LF => (k > 1 /\ t[k - 1] = CR)

\* what the not-CSV branch returns apart from the repaired text
NotCsvShape ==
    /\ ret[1].errors = NotCsvErrors(Split(text))
    /\ ret[1].isNotCSV
    /\ ret[1].expectedColumnCount = Null
    /\ ret[1].headerLine = Null

\* C3 (as amended): when the format check fails, the errors are one
\* not_csv_format error per non-blank line, in line order, with its number and
\* content, and nothing else; isNotCSV is true; expectedColumnCount and headerLine
\* are null; and the repaired text is the lines of the input, each unchanged,
\* joined with CR LF, which is the input itself when all its line breaks are CR LF
C3_NotCsvShortCircuit ==
    (pc = "returned" /\ ~detectCSVFormat(text)) =>
        /\ NotCsvShape
        /\ ret[1].fixedText = Join(Split(text), CRLF)
        /\ OnlyCRLF(text) => ret[1].fixedText = text

\* C3 as stated: the repaired text equals the input text unchanged
C3_Original ==
    (pc = "returned" /\ ~detectCSVFormat(text)) =>
        /\ NotCsvShape
        /\ ret[1].fixedText = text

\* the not-CSV branch has returned for a text with a blank and a non-blank line
C3_Witness ==
    /\ pc = "returned"
    /\ ~detectCSVFormat(text)
    /\ \E k \in 1..Len(lines) : IsBlank(lines[k])
    /\ Len(ret[1].errors) >= 2

\* the verdict described without the loop, over the first SampleLimit non-blank lines
LooksLikeCsv(t) ==
    IF IsBlank(t) THEN TRUE
    ELSE LET nb == NonBlank(Split(t))
             sample == SubSeq(nb, 1, Min(Len(nb), SampleLimit))
             bearing == {k \in 1..Len(sample) : Includes(sample[k], COMMA)}
             first == Nth(bearing, 1)
             diff(k) == CountChar(sample[k], COMMA) - CountChar(sample[first], COMMA)
         IN  /\ bearing # {}
             /\ 2 * Cardinality(bearing) > Len(sample)
             /\ \A k \in bearing : diff(k) <= 2 /\ diff(k) >= -2
             /\ \A k \in (1..Len(sample)) \ bearing : k < first

\* the verdict validateAndFixCSV acted on, once the format check has run
Verdict == ~(pc = "notcsv" \/ (pc = "returned" /\ ret[1].isNotCSV))

\* C7: detectCSVFormat is true for empty or whitespace-only text; otherwise, over
\* the first 10 non-blank lines, it is true iff some line has a comma, strictly
\* more than half of the lines have commas, no comma-bearing line's comma count
\* differs by more than 2 from the first comma-bearing line's, and no comma-free
\* line follows a comma-bearing one
C7_FormatDetector ==
    pc # "validate" => (Verdict = LooksLikeCsv(text))

\* the format check accepted a text whose 11th non-blank line has no comma
C7_Witness ==
    /\ pc = "loop"
    /\ LET nb == NonBlank(lines) IN
       /\ Len(nb) > SampleLimit
       /\ ~Includes(nb[SampleLimit + 1], COMMA)

\* the scan stays inside the line, and its flag is the parity of the quotes
\* it has consumed
ScanInRange ==
    /\ ps.i <= Len(line)
    /\ ps.inQuotes <=> (QuotesBefore(line, ps.i + 1) % 2 = 1)

\* at the end of the scan the flag is the parity of the quotes of the line
EndOfScanParity ==
    fields # Null => (ps.inQuotes <=> (CountChar(line, QUOTE) % 2 = 1))

\* C13: for every line parseCSVLine never reads outside the line, returns in the
\* end, and at the end of the scan inQuotes is true iff the line holds an odd
\* number of quote characters: a toggle consumes one quote, an escaped pair two,
\* and the reset at a separator leaves the flag as it was
C13_ScanEndsWithQuoteParity ==
    /\ []ScanInRange
    /\ []EndOfScanParity
    /\ <>(fields # Null)

\* parseCSVLine has returned with inQuotes true for a line with a separator and
\* an escaped pair
C13_Witness ==
    /\ fields # Null
    /\ ps.inQuotes
    /\ Len(fields[1]) > 1
    /\ \E k \in 1..Len(fields[1]) : Includes(fields[1][k].value, QUOTE)

\* the main loop is running or has returned
InMainLoop == pc = "loop" \/ (pc = "returned" /\ ~ret[1].isNotCSV)

\* the non-blank lines the main loop has gone through
SeenLines == {k \in 1..vs[1].i : ~IsBlank(lines[k])}

\* the errors the main loop holds for line k
ErrorsAt(k) == {j \in 1..Len(vs[1].errors) : vs[1].errors[j].line = k}

\* C11: within one pass over a text the format check accepts, the expected
\* column count is null until the first non-blank line has been processed and
\* from then on is that line's field count, with that line's 1-based number as
\* the header line; every later non-blank line is flagged iff its field count
\* differs from that value, every column_mismatch error carries it as
\* expectedCount, the header line is never flagged, and the returned object
\* carries the same two values
C11_ExpectedColumnCountFixed ==
    InMainLoop =>
        LET s == vs[1] IN
        /\ SeenLines = {} =>
               /\ s.expectedColumnCount = Null
               /\ s.headerLine = Null
               /\ s.errors = <<>>
        /\ SeenLines # {} =>
               LET e == HeaderCount(lines)
                   h == HeaderIndex(lines)
               IN  /\ s.expectedColumnCount = Some(e)
                   /\ s.headerLine = Some(h)
                   /\ ErrorsAt(h) = {}
                   /\ \A j \in 1..Len(s.errors) :
                          /\ s.errors[j].type = "column_mismatch"
                          /\ s.errors[j].expectedCount = e
                   /\ \A k \in SeenLines :
                          (Len(parseCSVLine(lines[k])) # e) <=> (ErrorsAt(k) # {})
        /\ pc = "returned" =>
               /\ ret[1].expectedColumnCount = s.expectedColumnCount
               /\ ret[1].headerLine = s.headerLine

\* the pass has returned for a text whose header is not its first line and is
\* followed by a line with another field count
C11_Witness ==
    /\ pc = "returned"
    /\ ~ret[1].isNotCSV
    /\ SeenLines # {}
    /\ HeaderIndex(lines) > 1
    /\ \E k \in SeenLines : k > HeaderIndex(lines) /\ ErrorsAt(k) # {}

\* C12: after a pass over a text the format check accepts, the repaired text
\* splits into exactly as many lines as the input and its line breaks are all
\* CR LF; every blank line and every non-blank line with the expected field
\* count stands unchanged at its position and has no error; a line that differs
\* from the input carries a column_mismatch error
C12_UnflaggedLinesUntouched ==
    (pc = "returned" /\ ~ret[1].isNotCSV) =>
        LET fixed == Split(ret[1].fixedText)
            errs == ret[1].errors
            flagged(k) == \E j \in 1..Len(errs) :
                              errs[j].line = k /\ errs[j].type = "column_mismatch"
        IN  /\ Len(fixed) = Len(lines)
            /\ OnlyCRLF(ret[1].fixedText)
            /\ \A k \in 1..Len(lines) :
                   /\ (IsBlank(lines[k])
                         \/ Some(Len(parseCSVLine(lines[k]))) = ret[1].expectedColumnCount)
                      => (fixed[k] = lines[k] /\ ErrorsAt(k) = {})
                   /\ fixed[k] # lines[k] => flagged(k)

\* the pass has returned for a text with a blank line, a line with the expected
\* field count after the header, and a rewritten line
C12_Witness ==
    /\ pc = "returned"
    /\ ~ret[1].isNotCSV
    /\ SeenLines # {}
    /\ \E k \in 1..Len(lines) : IsBlank(lines[k])
    /\ \E k \in SeenLines :
           /\ k > HeaderIndex(lines)
           /\ Len(parseCSVLine(lines[k])) = HeaderCount(lines)
    /\ \E k \in SeenLines : Split(ret[1].fixedText)[k] # lines[k]

\* C14: after a pass over a text the format check accepts, every non-blank line
\* of the repaired text, kept or rewritten, tokenizes to exactly the expected
\* number of fields
C14_RepairedLinesHaveExpectedCount ==
    (pc = "returned" /\ ~ret[1].isNotCSV /\ ret[1].expectedColumnCount # Null) =>
        LET fixed == Split(ret[1].fixedText) IN
        \A k \in 1..Len(fixed) :
            ~IsBlank(fixed[k]) =>
                Len(parseCSVLine(fixed[k])) = ret[1].expectedColumnCount[1]

\* the pass has returned with one expected column and two rewritten lines, one
\* of them with a quote character in a value
C14_Witness ==
    /\ pc = "returned"
    /\ ~ret[1].isNotCSV
    /\ ret[1].expectedColumnCount = Some(1)
    /\ Len(ret[1].errors) > 1
    /\ \E j \in 1..Len(ret[1].errors) : ret[1].errors[j].content = EscapedQuoteExample

\* the pass has returned after padding a line that had too few fields, one of
\* them holding a comma
C14_WitnessTooFew ==
    /\ pc = "returned"
    /\ ~ret[1].isNotCSV
    /\ \E j \in 1..Len(ret[1].errors) :
           /\ ret[1].errors[j].actualCount < ret[1].errors[j].expectedCount
           /\ ret[1].errors[j].content = UnmatchedQuoteExample

----------------------------------------------------------------------------
(* Cleanup transforms *)

normalizeTextDelimiters(t) ==
    LET ls == Split(t) IN
    Join([k \in 1..Len(ls) |-> normalizeLineDelimiters(ls[k])], CRLF)

removeEmptyRows(t) == Join(NonBlank(Split(t)), CRLF)

\* s.trim() that strips one whitespace character at most from each end
trimValue_OneCharacter(v) ==
    LET a == IF v # <<>> /\ IsSpace(Head(v)) THEN Tail(v) ELSE v IN
    IF a # <<>> /\ IsSpace(a[Len(a)]) THEN SubSeq(a, 1, Len(a) - 1) ELSE a

\* field.value.trim()
trimValue(v) == trim(v)

\* the callback of trimFieldWhitespace for one line; parseCSVLine never raises,
\* so the catch block is never entered
TrimLine(l) ==
    IF trim(l) = <<>> THEN l
    ELSE LET parsedFields == parseCSVLine(l)
             trimmedAndEscaped ==
                 [k \in 1..Len(parsedFields) |->
                     LET trimmedValue == trimValue(parsedFields[k].value) IN
                     escapeCSVValue(trimmedValue,
                                    parsedFields[k].wasQuoted \/ NeedsQuoting(trimmedValue))]
         IN  Join(trimmedAndEscaped, <<COMMA>>)

trimFieldWhitespace(t) ==
    LET ls == Split(t) IN Join([k \in 1..Len(ls) |-> TrimLine(ls[k])], CRLF)

APOS == "'"
LDQUO == "LEFT DOUBLE QUOTATION MARK"
ELLIPSIS == "HORIZONTAL ELLIPSIS"
ENDASH == "EN DASH"
EMDASH == "EM DASH"

\* the five replacements on one character; the character classes of the first two
\* hold the straight quote and the straight apostrophe
SmartChar(c) ==
    IF c = QUOTE THEN <<QUOTE>>
    ELSE IF c = APOS THEN <<APOS>>
    ELSE IF c = ELLIPSIS THEN <<".", ".", ".">>
    ELSE IF c = ENDASH THEN <<"-">>
    ELSE IF c = EMDASH THEN <<"-">>
    ELSE <<c>>

RECURSIVE fixSmartQuotes(_)
fixSmartQuotes(t) ==
    IF t = <<>> THEN <<>> ELSE SmartChar(Head(t)) \o fixSmartQuotes(Tail(t))

DedupInit == [seen |-> {}, uniqueLines |-> <<>>]

\* one iteration of the loop that looks up the untrimmed line
DedupStep_Untrimmed(l, d) ==
    IF trim(l) = <<>> \/ l \notin d.seen
    THEN [seen |-> d.seen \cup {l}, uniqueLines |-> Append(d.uniqueLines, l)]
    ELSE d

\* one iteration of the loop of removeDuplicateRows
DedupStep(l, d) ==
    LET trimmedLine == trim(l) IN
    IF trimmedLine = <<>> \/ trimmedLine \notin d.seen
    THEN [seen |-> d.seen \cup {trimmedLine}, uniqueLines |-> Append(d.uniqueLines, l)]
    ELSE d

RECURSIVE DedupLoop(_, _)
DedupLoop(ls, d) == IF ls = <<>> THEN d ELSE DedupLoop(Tail(ls), DedupStep(Head(ls), d))

removeDuplicateRows(t) == Join(DedupLoop(Split(t), DedupInit).uniqueLines, CRLF)

----------------------------------------------------------------------------
(* Cleanup specification: one transform is applied to a text, and then to   *)
(* its own result (a downloaded file that is loaded and exported again).    *)

MaxTextLen == 5
MaxSmartLen == 3

CleanChars == {"a", SPACE, COMMA, QUOTE, LF, CR}
NormChars == {"a", QUOTE, SEMI, TAB, COMMA, LF}
SmartChars == {"a", QUOTE, APOS, LDQUO, ELLIPSIS, ENDASH, EMDASH}

QuotedTabExample ==
    <<"a", COMMA, QUOTE, "b", TAB, "c", QUOTE, COMMA, "d", TAB, "e">>

Apply(f, t) ==
    CASE f = "removeEmptyRows" -> removeEmptyRows(t)
      [] f = "trimFieldWhitespace" -> trimFieldWhitespace(t)
      [] f = "fixSmartQuotes" -> fixSmartQuotes(t)
      [] f = "removeDuplicateRows" -> removeDuplicateRows(t)
      [] f = "normalizeTextDelimiters" -> normalizeTextDelimiters(t)

InitClean ==
    /\ LineIdle
    /\ UIIdle
    /\ lines = <<>>
    /\ vs = Null
    /\ ret = Null
    /\ pc = "clean"
    /\ once = Null
    /\ twice = Null
    /\ \/ /\ transform \in {"removeEmptyRows", "trimFieldWhitespace", "removeDuplicateRows"}
          /\ text \in SeqsUpTo(CleanChars, MaxTextLen)
       \/ /\ transform = "fixSmartQuotes"
          /\ text \in SeqsUpTo(SmartChars, MaxSmartLen)
       \/ /\ transform = "normalizeTextDelimiters"
          /\ text \in SeqsUpTo(NormChars, MaxTextLen) \cup {QuotedTabExample}

\* the transform runs on the text
ApplyOnce ==
    /\ pc = "clean"
    /\ once = Null
    /\ once' = Some(Apply(transform, text))
    /\ UNCHANGED <<pc, transform, twice, lineVars, docVars, uiVars>>

\* the transform runs on its own result
ApplyAgain ==
    /\ pc = "clean"
    /\ once # Null
    /\ twice = Null
    /\ twice' = Some(Apply(transform, once[1]))
    /\ UNCHANGED <<pc, transform, once, lineVars, docVars, uiVars>>

NextClean == ApplyOnce \/ ApplyAgain

SpecClean == InitClean /\ [][NextClean]_vars

----------------------------------------------------------------------------
(* Properties of the cleanup transforms *)

\* inQuotes of parseCSVLine when its loop reaches position p (1-based) of l
RECURSIVE ParseStateAt(_, _, _)
ParseStateAt(l, s, p) ==
    IF s.i + 1 < p /\ s.i < Len(l) THEN ParseStateAt(l, ParseStep(l, s), p) ELSE s

TokInQuotesAt(l, p) == ParseStateAt(l, ParseInit, p).inQuotes

\* inQuotes of normalizeLineDelimiters when its loop reaches position p of l
RECURSIVE NormStateAt(_, _, _)
NormStateAt(l, s, p) ==
    IF s.i + 1 < p /\ s.i < Len(l) THEN NormStateAt(l, NormStep(l, s), p) ELSE s

NormInQuotesAt(l, p) == NormStateAt(l, NormInit, p).inQuotes

\* C8: on every line of the text, at every tab, semicolon or comma the quote
\* state of normalizeLineDelimiters equals that of parseCSVLine; a tab or
\* semicolon becomes a comma iff it is outside quotes for parseCSVLine, every
\* other character is copied, each output line is as long as its input line, and
\* the quote state starts afresh on every line
C8_NormalizerTracksTokenizer ==
    (transform = "normalizeTextDelimiters" /\ once # Null) =>
        LET ls == Split(text)
            outs == Split(once[1])
        IN  /\ Len(outs) = Len(ls)
            /\ \A k \in 1..Len(ls) :
                   /\ Len(outs[k]) = Len(ls[k])
                   /\ \A p \in 1..Len(ls[k]) :
                          /\ ls[k][p] \in {TAB, SEMI, COMMA} =>
                                 NormInQuotesAt(ls[k], p) = TokInQuotesAt(ls[k], p)
                          /\ outs[k][p] =
                                 IF ls[k][p] \in {TAB, SEMI} /\ ~TokInQuotesAt(ls[k], p)
                                 THEN COMMA ELSE ls[k][p]

\* a text was normalized whose first line leaves a quote open and whose second
\* line holds a delimiter, and one that holds a delimiter inside quotes
C8_Witness ==
    /\ transform = "normalizeTextDelimiters"
    /\ once # Null
    /\ \/ text = <<QUOTE, LF, SEMI>>
       \/ text = QuotedTabExample

\* C9: removeDuplicateRows, removeEmptyRows, fixSmartQuotes and
\* trimFieldWhitespace are idempotent: applied to their own result they return it
C9_Idempotent ==
    (twice # Null /\ transform \in {"removeDuplicateRows", "removeEmptyRows",
                                    "fixSmartQuotes", "trimFieldWhitespace"}) =>
        twice = once

\* trimFieldWhitespace ran twice on a text that its first run changed
C9_Witness ==
    /\ twice # Null
    /\ transform = "trimFieldWhitespace"
    /\ once[1] # text
    /\ \E k \in 1..Len(text) : text[k] = SPACE

\* the lines removeDuplicateRows keeps: the blank ones, and the non-blank ones
\* that no earlier line equals after trimming
KeptLines(ls) ==
    LET idx == {k \in 1..Len(ls) :
                   IsBlank(ls[k]) \/ \A j \in 1..(k - 1) : trim(ls[j]) # trim(ls[k])}
    IN  [j \in 1..Cardinality(idx) |-> ls[Nth(idx, j)]]

\* C10: removeDuplicateRows returns, in input order and joined with CR LF, every
\* blank line and every non-blank line that no earlier line equals after
\* trimming, each with its untrimmed text; so no two non-blank output lines are
\* equal after trimming and every trimmed input line is a trimmed output line
C10_DuplicateRows ==
    (transform = "removeDuplicateRows" /\ once # Null) =>
        LET ls == Split(text)
            kept == KeptLines(ls)
        IN  /\ once[1] = Join(kept, CRLF)
            /\ \A j, k \in 1..Len(kept) :
                   (j # k /\ ~IsBlank(kept[j]) /\ trim(kept[j]) = trim(kept[k])) => FALSE
            /\ \A k \in 1..Len(ls) : \E j \in 1..Len(kept) : trim(kept[j]) = trim(ls[k])

\* removeDuplicateRows dropped a line that differs from an earlier one only by
\* surrounding whitespace
C10_Witness ==
    /\ transform = "removeDuplicateRows"
    /\ once # Null
    /\ text = <<"a", LF, "a", SPACE>>
    /\ once[1] = <<"a">>

----------------------------------------------------------------------------
(* The page: validation state, timers and event handlers (DOMContentLoaded) *)

\* getCurrentLineNumber
getCurrentLineNumber(t, cursorPosition) == Len(Split(SubSeq(t, 1, cursorPosition)))

\* validateSingleLine; parseCSVLine never raises, so the catch block is never
\* entered
validateSingleLine(lineText, lineNumber, expectedColumnCount) ==
    IF trim(lineText) = <<>> THEN Null
    ELSE LET parsedValues == parseCSVLine(lineText) IN
         IF expectedColumnCount # Null /\ Len(parsedValues) # expectedColumnCount[1]
         THEN Some([line |-> lineNumber, content |-> lineText,
                    type |-> "column_mismatch",
                    expectedCount |-> expectedColumnCount[1],
                    actualCount |-> Len(parsedValues)])
         ELSE Null

\* errors.filter(err => err.line !== n)
RECURSIVE WithoutLine(_, _)
WithoutLine(errs, n) ==
    IF errs = <<>> THEN <<>>
    ELSE (IF Head(errs).line # n THEN <<Head(errs)>> ELSE <<>>) \o WithoutLine(Tail(errs), n)

\* "Get expected column count from first non-empty line"
FirstLineColumns(ls) ==
    LET nb == NonBlank(ls) IN
    IF nb = <<>> THEN Null ELSE Some(Len(parseCSVLine(nb[1])))

\* performImmediateValidation: the held result and downloadBtn.disabled it leaves
ImmediateValidation(t, cursorPosition, held, disabled) ==
    IF trim(t) = <<>>
    THEN [result |-> Null, disabled |-> FALSE]
    ELSE LET ls == Split(t)
             currentLineNum == getCurrentLineNumber(t, cursorPosition)
             currentLineText == ls[currentLineNum]
             expectedColumnCount == FirstLineColumns(ls)
             currentLineError ==
                 validateSingleLine(currentLineText, currentLineNum, expectedColumnCount)
             base == IF held = Null
                     THEN [errors |-> <<>>, expectedColumnCount |-> expectedColumnCount,
                           headerLine |-> Some(1)]
                     ELSE held[1]
             kept == WithoutLine(base.errors, currentLineNum)
             errs == IF currentLineError # Null
                     THEN Append(kept, currentLineError[1]) ELSE kept
         IN  [result |-> Some([base EXCEPT !.errors = errs]),
              disabled |-> IF currentLineError # Null THEN TRUE
                           ELSE IF errs = <<>> THEN FALSE
                           ELSE disabled]

\* performFullValidation, highlightErrorLines included
FullValidation(t) ==
    IF trim(t) = <<>>
    THEN [result |-> Null, disabled |-> FALSE]
    ELSE LET r == validateAndFixCSV(t) IN
         [result |-> Some(r), disabled |-> Len(r.errors) > 0]

\* the cleanup options in the order the click handler applies them
Pipeline ==
    <<"fixSmartQuotes", "trimFieldWhitespace", "removeEmptyRows",
      "removeDuplicateRows", "normalizeTextDelimiters">>

\* the click handler from "Apply AI cleanup options" on: stage k applies its
\* transform when its checkbox is checked and the text is not empty
RECURSIVE RunPipeline(_, _, _, _)
RunPipeline(k, t, applied, checked) ==
    IF k > Len(Pipeline)
    THEN [text |-> Join(Split(t), CRLF), applied |-> applied]
    ELSE IF Pipeline[k] \in checked /\ Len(t) > 0
    THEN RunPipeline(k + 1, Apply(Pipeline[k], t), Append(applied, Pipeline[k]), checked)
    ELSE RunPipeline(k + 1, t, applied, checked)

----------------------------------------------------------------------------
(* Page specification: the user edits, moves the cursor, pastes, uploads and *)
(* clicks; the timers fire in any order.                                     *)

MaxPasteTimers == 1

\* Math.abs(newCursorPosition - lastCursorPosition) > 10
CursorJump == 10

Doc2(a, b) == a \o <<LF>> \o b
Doc3(a, b, c) == a \o <<LF>> \o b \o <<LF>> \o c

\* the texts the textarea takes
UITexts ==
    { <<>>,
      Doc2(Csv2("a", "b"), Csv2("1", "2")),
      Doc2(Csv3("a", "b", "c"), Csv2("1", "2")),
      Doc2(Str1("a"), Str1("b")),
      Doc3(Csv3("a", "b", "c"), Csv2("1", "2"), Csv3("1", "2", "3")) }

\* the cursor offsets used: the start of each line and the end of the text
Positions(t) == {0, Len(t)} \cup {k \in 1..Len(t) : t[k] = LF}

Keys == {"Enter", "ArrowUp", "ArrowDown", "a"}

\* the sets of checked cleanup boxes used: none, each one alone, all
AllOptions == {Pipeline[k] : k \in 1..Len(Pipeline)}
CheckedSets == {{}, AllOptions} \cup {{o} : o \in AllOptions}

\* performFullValidation on each text of the textarea, computed once
FullValidationOf == [t \in UITexts |-> FullValidation(t)]

\* the cleanup pipeline on each text and set of checked boxes, computed once
ExportOf == [t \in UITexts, checked \in CheckedSets |-> RunPipeline(1, t, <<>>, checked)]

\* the click handler without its test of the held validation result
ClickEffect_NoGuard(t, held, checked, addBom) ==
    LET out == ExportOf[t, checked] IN
    [kind |-> "click", alert |-> FALSE, applied |-> out.applied,
     file |-> Some([text |-> out.text, bom |-> addBom])]

\* the click handler of the download button: the alert and nothing else while
\* the held result has errors, the cleaned text as a file otherwise
ClickEffect(t, held, checked, addBom) ==
    IF held # Null /\ Len(held[1].errors) > 0
    THEN [kind |-> "click", alert |-> TRUE, applied |-> <<>>, file |-> Null]
    ELSE LET out == ExportOf[t, checked] IN
         [kind |-> "click", alert |-> FALSE, applied |-> out.applied,
          file |-> Some([text |-> out.text, bom |-> addBom])]

InitUI ==
    /\ LineIdle
    /\ DocIdle
    /\ CleanIdle
    /\ pc = "page"
    /\ UIIdle

\* an input handler that re-arms the line-level timer only
Input_NoFullTimer ==
    /\ pc = "page"
    /\ \E t \in UITexts : \E c \in Positions(t) :
          /\ inputValue' = t
          /\ selectionStart' = c
    /\ immediateValidationTimeout' = TRUE
    /\ effect' = NoEffect
    /\ UNCHANGED <<pc, lastCursorPosition, currentValidationResult, validationTimeout,
                   pasteTimeouts, downloadDisabled, lineVars, docVars, cleanVars>>

\* the user edits the text; the input handler re-arms both timers
Input ==
    /\ pc = "page"
    /\ \E t \in UITexts : \E c \in Positions(t) :
          /\ inputValue' = t
          /\ selectionStart' = c
    /\ immediateValidationTimeout' = TRUE
    /\ validationTimeout' = TRUE
    /\ effect' = NoEffect
    /\ UNCHANGED <<pc, lastCursorPosition, currentValidationResult, pasteTimeouts,
                   downloadDisabled, lineVars, docVars, cleanVars>>

\* the cursor moves (or the event fires where it stands); selectionchange handler
SelectionChange ==
    /\ pc = "page"
    /\ \E c \in Positions(inputValue) :
          /\ selectionStart' = c
          /\ lastCursorPosition' = c
          /\ immediateValidationTimeout' =
                 IF Max(c - lastCursorPosition, lastCursorPosition - c) > CursorJump
                 THEN TRUE ELSE immediateValidationTimeout
    /\ effect' = NoEffect
    /\ UNCHANGED <<pc, inputValue, currentValidationResult, validationTimeout,
                   pasteTimeouts, downloadDisabled, lineVars, docVars, cleanVars>>

\* keyup handler
KeyUp ==
    /\ pc = "page"
    /\ \E key \in Keys :
          immediateValidationTimeout' =
              IF key \in {"Enter", "ArrowUp", "ArrowDown"}
              THEN TRUE ELSE immediateValidationTimeout
    /\ effect' = NoEffect
    /\ UNCHANGED <<pc, inputValue, selectionStart, lastCursorPosition,
                   currentValidationResult, validationTimeout, pasteTimeouts,
                   downloadDisabled, lineVars, docVars, cleanVars>>

\* paste handler: setTimeout(performValidation, 100), never cleared
Paste ==
    /\ pc = "page"
    /\ pasteTimeouts < MaxPasteTimers
    /\ pasteTimeouts' = pasteTimeouts + 1
    /\ effect' = NoEffect
    /\ UNCHANGED <<pc, inputValue, selectionStart, lastCursorPosition,
                   currentValidationResult, immediateValidationTimeout,
                   validationTimeout, downloadDisabled, lineVars, docVars, cleanVars>>

\* the line-level timer fires: performImmediateValidation
FireImmediate ==
    /\ pc = "page"
    /\ immediateValidationTimeout
    /\ immediateValidationTimeout' = FALSE
    /\ LET v == ImmediateValidation(inputValue, selectionStart,
                                    currentValidationResult, downloadDisabled)
       IN  /\ currentValidationResult' = v.result
           /\ downloadDisabled' = v.disabled
    /\ effect' = NoEffect
    /\ UNCHANGED <<pc, inputValue, selectionStart, lastCursorPosition,
                   validationTimeout, pasteTimeouts, lineVars, docVars, cleanVars>>

\* the full-validation timer fires: performFullValidation
FireFull ==
    /\ pc = "page"
    /\ validationTimeout
    /\ validationTimeout' = FALSE
    /\ LET v == FullValidationOf[inputValue]
       IN  /\ currentValidationResult' = v.result
           /\ downloadDisabled' = v.disabled
    /\ effect' = NoEffect
    /\ UNCHANGED <<pc, inputValue, selectionStart, lastCursorPosition,
                   immediateValidationTimeout, pasteTimeouts, lineVars, docVars,
                   cleanVars>>

\* a timer of the paste handler fires: performValidation
FirePaste ==
    /\ pc = "page"
    /\ pasteTimeouts > 0
    /\ pasteTimeouts' = pasteTimeouts - 1
    /\ LET v == FullValidationOf[inputValue]
       IN  /\ currentValidationResult' = v.result
           /\ downloadDisabled' = v.disabled
    /\ effect' = NoEffect
    /\ UNCHANGED <<pc, inputValue, selectionStart, lastCursorPosition,
                   immediateValidationTimeout, validationTimeout, lineVars, docVars,
                   cleanVars>>

\* change handler of the file input: the file's text replaces the textarea's
\* and is validated at once; where the browser leaves the cursor is not fixed
Upload ==
    /\ pc = "page"
    /\ \E t \in UITexts : \E c \in {0, Len(t)} :
          /\ inputValue' = t
          /\ selectionStart' = c
          /\ LET v == FullValidationOf[t]
             IN  /\ currentValidationResult' = v.result
                 /\ downloadDisabled' = v.disabled
    /\ effect' = NoEffect
    /\ UNCHANGED <<pc, lastCursorPosition, immediateValidationTimeout,
                   validationTimeout, pasteTimeouts, lineVars, docVars, cleanVars>>

\* click handler of the download button, with whatever boxes are checked
Click ==
    /\ pc = "page"
    /\ \E checked \in CheckedSets :
       \E addBom \in BOOLEAN :
          effect' = ClickEffect(inputValue, currentValidationResult, checked, addBom)
    /\ UNCHANGED <<pc, inputValue, selectionStart, lastCursorPosition,
                   currentValidationResult, immediateValidationTimeout,
                   validationTimeout, pasteTimeouts, downloadDisabled, lineVars,
                   docVars, cleanVars>>

NextUI ==
    \/ Input
    \/ SelectionChange
    \/ KeyUp
    \/ Paste
    \/ FireImmediate
    \/ FireFull
    \/ FirePaste
    \/ Upload
    \/ Click

SpecUI == InitUI /\ [][NextUI]_vars

----------------------------------------------------------------------------
(* Cursor specification: a full validation pass has just run on the text of *)
(* the textarea; from then on the user only moves the cursor, presses keys  *)
(* and clicks, and the line-level timer fires. The text is never edited.    *)

InitCursor ==
    /\ LineIdle
    /\ DocIdle
    /\ CleanIdle
    /\ pc = "page"
    /\ inputValue \in UITexts
    /\ selectionStart \in Positions(inputValue)
    /\ lastCursorPosition = 0
    /\ currentValidationResult = FullValidationOf[inputValue].result
    /\ downloadDisabled = FullValidationOf[inputValue].disabled
    /\ immediateValidationTimeout = FALSE
    /\ validationTimeout = FALSE
    /\ pasteTimeouts = 0
    /\ effect = NoEffect

NextCursor ==
    \/ SelectionChange
    \/ KeyUp
    \/ FireImmediate
    \/ Click

SpecCursor == InitCursor /\ [][NextCursor]_vars

----------------------------------------------------------------------------
(* Timer specification: the user types, moves the cursor and presses keys,  *)
(* and the two validation timers fire in any order. A pending full timer    *)
(* fires in the end: the browser runs a setTimeout callback once its delay  *)
(* has passed, and the input handler replaces a pending timer by a new one. *)
(* Nothing is assumed about when the line-level timer fires.                *)

NextTimers ==
    \/ Input
    \/ SelectionChange
    \/ KeyUp
    \/ FireImmediate
    \/ FireFull

SpecTimers ==
    /\ InitUI
    /\ [][NextTimers]_vars
    /\ WF_vars(FireFull)

----------------------------------------------------------------------------
(* Properties of the page *)

\* number of issues in the held validation result (0 when none is held)
HeldIssues ==
    IF currentValidationResult = Null THEN 0
    ELSE Len(currentValidationResult[1].errors)

\* C4: a download click made while the held validation result has an issue shows
\* the alert, runs no cleanup transform and produces no file; a file is produced
\* only when the held issue list is empty or no result is held
C4_ExportBlocked ==
    effect.kind = "click" =>
        /\ HeldIssues > 0 =>
               (effect.alert /\ effect.applied = <<>> /\ effect.file = Null)
        /\ effect.file # Null => HeldIssues = 0

\* the download button was clicked while the held result had an issue
C4_Witness ==
    /\ effect.kind = "click"
    /\ HeldIssues > 0
    /\ effect.alert

\* number of issues a full validation pass reports for text t
FullIssues(t) ==
    IF FullValidationOf[t].result = Null THEN 0
    ELSE Len(FullValidationOf[t].result[1].errors)

\* C15: after a full validation pass that reported an issue for the text, and
\* while the text is not edited, the held issue list never becomes empty
\* whatever line-level passes run, and a download click is answered by the
\* alert and produces no file
C15_HeldIssuesPersist ==
    FullIssues(inputValue) > 0 =>
        /\ HeldIssues > 0
        /\ effect.kind = "click" => (effect.alert /\ effect.file = Null)

\* a step that changes the text of the textarea leaves both timers pending
InputArmsBothTimers ==
    inputValue' # inputValue => (immediateValidationTimeout' /\ validationTimeout')

\* the step that ends the full timer leaves the text as it is and makes the
\* held result exactly what validateAndFixCSV returns for it (null for a blank
\* text)
FullPassReplaces ==
    (validationTimeout /\ ~validationTimeout') =>
        /\ inputValue' = inputValue
        /\ currentValidationResult' = FullValidationOf[inputValue].result

\* the full pass has run on the text now in the textarea and the held result
\* is what it returned
FullPassDone ==
    /\ ~validationTimeout
    /\ currentValidationResult = FullValidationOf[inputValue].result

\* C16: under any interleaving of input events, cursor and key events and timer
\* firings, every input event that changes the text leaves the line-level and
\* the full timer pending; and while the full timer is pending, a full pass
\* eventually runs on the text then in the textarea and makes the held result
\* exactly the result of validateAndFixCSV on it (null for a blank text),
\* whatever a line-level pass had put there before
C16_FullPassSupersedes ==
    /\ [][InputArmsBothTimers]_vars
    /\ [][FullPassReplaces]_vars
    /\ validationTimeout ~> FullPassDone

\* both timers have fired after an edit, and the held result is the full pass's
\* result, with its issues, for a text that is not blank
C16_Witness ==
    /\ FullPassDone
    /\ ~immediateValidationTimeout
    /\ HeldIssues > 0
    /\ "fixedText" \in DOMAIN currentValidationResult[1]

=============================================================================
